---- MODULE Spec2Model ----
(***************************************************************************)
(* Model of src/index.ts: the paginated product fetcher (fetchProducts)    *)
(* and the collector (main) that runs it once per query and merges the     *)
(* rendered rows into data.csv.                                            *)
(*                                                                         *)
(* The program is single threaded; every await of the source is a label    *)
(* of pc, and the code between two awaits is one action.  The server and   *)
(* the file system are the environment: every answer they can give is a    *)
(* nondeterministic choice of the action that receives it.                 *)
(***************************************************************************)
EXTENDS Integers, Sequences, FiniteSets, TLC

\* src/index.ts:2
TARGET_PRODUCTS_PER_QUERY == 500

\* Longest argument list the model runs main with.
MaxQueries == 2

\* The query strings the argument lists are made of.
QueryNames == <<"samsung", "iphone", "oneplus", "pixel">>

\* Lengths of the nonempty result arrays the server may answer with.  They are
\* chosen around the cap: sums below it (150, 300, 450), exactly on it
\* (150+350) and beyond it (600, 650, 700).
PageSizes == {150, 350}

VARIABLES
    argv,            \* process.argv.slice(2)
    file,            \* data.csv on disk: [exists, content]
    pc,              \* the await (or statement) the program is at
    exitCode,        \* -1 while running, then the process's exit status
    mainRejected,    \* main()'s promise was rejected (and logged by console.error)
    qi,              \* index in queries of the for-loop of main
    mainAllProducts, \* allProducts of main
    existingContent, \* existingContent of main
    fileReads,       \* number of file.text() calls made
    fileWrites,      \* number of Bun.write() calls made
    query,           \* parameter of the running fetchProducts call
    allProducts,     \* allProducts of fetchProducts
    page,            \* page of fetchProducts
    hasMore,         \* hasMore of fetchProducts
    products,        \* value the last fetchProducts call returned
    requests,        \* the fetch(url) calls of the running fetchProducts call
    responses,       \* what each of these requests was answered with
    delays,          \* throttling delays elapsed in the running call
    results,         \* what each finished fetchProducts call returned, in order
    readFailed,      \* file.exists() or file.text() rejected in this run
    sizes,           \* lengths of the nonempty result arrays the server answers with
    runs,            \* number of runs of the program started so far
    allRows          \* rows of the runs whose Bun.write resolved, in run order

vars == <<argv, file, pc, exitCode, mainRejected, qi, mainAllProducts,
          existingContent, fileReads, fileWrites, query, allProducts, page,
          hasMore, products, requests, responses, delays, results,
          readFailed, sizes, runs, allRows>>

\* The state of main that fetchProducts cannot touch.
mainData == <<argv, file, qi, mainAllProducts, existingContent, fileReads,
              fileWrites, results, readFailed, sizes, runs, allRows>>

\* How the process stands: both change only when an error leaves a function.
status == <<exitCode, mainRejected>>

mainVars == <<mainData, status>>

----------------------------------------------------------------------------
(* Values *)

Min(a, b) == IF a < b THEN a ELSE b

\* Array.prototype.slice(start, end) with 0 <= start.
Slice(s, start, end) == SubSeq(s, start + 1, Min(end, Len(s)))

\* The SearchItem the server puts at position i of page p of query q.
Item(q, p, i) == <<q, p, i>>

\* The results array of n items of page p of query q.
Items(q, p, n) == [i \in 1..n |-> Item(q, p, i)]

\* A text is a sequence of tokens: NL is the newline character, every other
\* token is a piece of text without a newline.
NL == <<"\n">>
Old == <<"old">>

\* The row of a product: one token (a title holding a newline is not modelled).
productToCsvRow(product) == <<"row", product>>

\* csvRows.join("\n")
Join(rows) ==
    IF Len(rows) = 0 THEN <<>>
    ELSE [k \in 1..(2 * Len(rows) - 1) |->
             IF k % 2 = 1 THEN rows[(k + 1) \div 2] ELSE NL]

\* Mutant of EndsWithNL: no text is seen to end with a newline.
EndsWithNLNever(text) == FALSE

\* String.prototype.endsWith("\n")
EndsWithNL(text) == Len(text) > 0 /\ text[Len(text)] = NL

\* Mutant of NeedsNewline: the text is not tested for being empty.
NeedsNewlineEvenEmpty(text) == ~EndsWithNL(text)

\* existingContent && !existingContent.endsWith("\n")
NeedsNewline(text) == Len(text) > 0 /\ ~EndsWithNL(text)

\* The parsed bodies response.json() can resolve with for page p of query q.
\* isNull: the body is the JSON value null (a property read of it throws);
\* hasResults: the results field is there; hasPagination: the pagination
\* object is there; nextPage: "null" or a "token" ("undefined" when there is
\* no pagination object to read it from).
NoPagination == [hasPagination |-> FALSE, nextPage |-> "undefined"]
Paginations ==
    {NoPagination} \cup [hasPagination : {TRUE}, nextPage : {"null", "token"}]

Body(isNull, hasResults, items, pagination) ==
    [isNull |-> isNull, hasResults |-> hasResults, results |-> items,
     hasPagination |-> pagination.hasPagination,
     nextPage |-> pagination.nextPage]

Bodies(q, p) ==
    {Body(TRUE, FALSE, <<>>, NoPagination)} \cup
    {Body(FALSE, FALSE, <<>>, pg) : pg \in Paginations} \cup
    {Body(FALSE, TRUE, <<>>, pg) : pg \in Paginations} \cup
    {Body(FALSE, TRUE, Items(q, p, n), pg) : n \in sizes, pg \in Paginations}

\* What the log of responses keeps of an answer.
Answer(kind, data) ==
    [status |-> kind, isNull |-> data.isNull, hasResults |-> data.hasResults,
     n |-> Len(data.results), hasPagination |-> data.hasPagination,
     nextPage |-> data.nextPage]

NoBody == Body(TRUE, FALSE, <<>>, NoPagination)

----------------------------------------------------------------------------
(* fetchProducts *)

\* Mutant of LoopCondition: the cap is tested with <= instead of <.
LoopConditionInclusive ==
    hasMore /\ Len(allProducts) <= TARGET_PRODUCTS_PER_QUERY

\* while (hasMore && allProducts.length < TARGET_PRODUCTS_PER_QUERY)
LoopCondition == hasMore /\ Len(allProducts) < TARGET_PRODUCTS_PER_QUERY

\* Mutant of ResultsNonEmpty: the length of the array is not tested.
ResultsPresent(data) == data.hasResults

\* data.results && data.results.length > 0
ResultsNonEmpty(data) == data.hasResults /\ Len(data.results) > 0

\* Mutant of Push: the accumulator is cut at the cap on every push.
PushCapped(acc, items) == Slice(acc \o items, 0, TARGET_PRODUCTS_PER_QUERY)

\* allProducts.push(...data.results)
Push(acc, items) == acc \o items

\* Mutant of HasNextPage: the token is not looked at.
HasNextPageAlways(data) == TRUE

\* data.pagination.nextPage !== null
HasNextPage(data) == data.nextPage # "null"

\* Mutant of NextPage: the increment is lost.
NextPageSame(p) == p

\* page++
NextPage(p) == p + 1

\* Mutant of CatchHasMore: the catch block leaves hasMore as it is.
CatchHasMoreKept == hasMore

\* hasMore = false of the catch block
CatchHasMore == FALSE

\* Mutant of EmptyHasMore: the else branch leaves hasMore as it is.
EmptyHasMoreKept == hasMore

\* hasMore = false of the else branch
EmptyHasMore == FALSE

\* Mutant of ReturnValue: the accumulator is returned whole.
ReturnValueWhole == allProducts

\* return allProducts.slice(0, TARGET_PRODUCTS_PER_QUERY)
ReturnValue == Slice(allProducts, 0, TARGET_PRODUCTS_PER_QUERY)

\* Mutant of AfterPage: no delay when the page was the last one.
AfterPageSkipsLastDelay(more) == IF more THEN "delay" ELSE "while"

\* await new Promise(...) follows both branches of the if: the delay is next,
\* whatever hasMore (more) has become.
AfterPage(more) == "delay"

\* The body of the try block from the resolution of response.json() on:
\* the accumulator, hasMore and page it leaves, and whether it threw.
ProcessData(data) ==
    IF data.isNull
    THEN [allProducts |-> allProducts, hasMore |-> hasMore, page |-> page,
          threw |-> TRUE]
    ELSE IF ResultsNonEmpty(data)
    THEN IF data.hasPagination
         THEN [allProducts |-> Push(allProducts, data.results),
               hasMore |-> HasNextPage(data), page |-> NextPage(page),
               threw |-> FALSE]
         ELSE [allProducts |-> Push(allProducts, data.results),
               hasMore |-> hasMore, page |-> page, threw |-> TRUE]
    ELSE [allProducts |-> allProducts, hasMore |-> EmptyHasMore, page |-> page,
          threw |-> FALSE]

\* Mutant of Catch: no try block, the error leaves fetchProducts and main, whose
\* promise is rejected.
CatchRethrows(kind, data) ==
    /\ responses' = Append(responses, Answer(kind, data))
    /\ mainRejected' = TRUE
    /\ exitCode' = 0
    /\ pc' = "exited"
    /\ UNCHANGED hasMore

\* catch (error) { console.error(...); hasMore = false; }: the error goes no
\* further, the loop test is next.
Catch(kind, data) ==
    /\ hasMore' = CatchHasMore
    /\ responses' = Append(responses, Answer(kind, data))
    /\ pc' = "while"
    /\ UNCHANGED status

\* The loop test; a true test runs the try block up to await fetch(url).
While ==
    /\ pc = "while"
    /\ IF LoopCondition
       THEN /\ requests' = Append(requests,
                   [query |-> query, page |-> page, held |-> Len(allProducts)])
            /\ pc' = "fetch"
            /\ UNCHANGED products
       ELSE /\ products' = ReturnValue
            /\ pc' = "returned"
            /\ UNCHANGED requests
    /\ UNCHANGED <<mainVars, query, allProducts, page, hasMore, responses, delays>>

\* await fetch(url) rejects: a network error.
FetchRejects ==
    /\ pc = "fetch"
    /\ Catch("networkError", NoBody)
    /\ UNCHANGED <<mainData, query, allProducts, page, products, requests, delays>>

\* await fetch(url) resolves with a response whose ok is false.
FetchNotOk ==
    /\ pc = "fetch"
    /\ Catch("httpError", NoBody)
    /\ UNCHANGED <<mainData, query, allProducts, page, products, requests, delays>>

\* await fetch(url) resolves with an ok response: response.json() is called.
FetchOk ==
    /\ pc = "fetch"
    /\ pc' = "json"
    /\ UNCHANGED <<mainVars, query, allProducts, page, hasMore, products,
                   requests, responses, delays>>

\* await response.json() rejects: the body is not JSON.
JsonRejects ==
    /\ pc = "json"
    /\ Catch("parseError", NoBody)
    /\ UNCHANGED <<mainData, query, allProducts, page, products, requests, delays>>

\* await response.json() resolves with data; the rest of the try block runs
\* up to the await of the delay, or throws into the catch block.
JsonResolves ==
    /\ pc = "json"
    /\ \E data \in Bodies(query, page) :
         LET r == ProcessData(data) IN
           /\ allProducts' = r.allProducts
           /\ page' = r.page
           /\ IF r.threw
              THEN Catch("body", data)
              ELSE /\ hasMore' = r.hasMore
                   /\ responses' = Append(responses, Answer("body", data))
                   /\ pc' = AfterPage(r.hasMore)
                   /\ UNCHANGED status
    /\ UNCHANGED <<mainData, query, products, requests, delays>>

\* await new Promise((resolve) => setTimeout(resolve, 100)) resolves.
Delay ==
    /\ pc = "delay"
    /\ delays' = delays + 1
    /\ pc' = "while"
    /\ UNCHANGED <<mainVars, query, allProducts, page, hasMore, products,
                   requests, responses>>

----------------------------------------------------------------------------
(* main *)

\* const queries = process.argv.slice(2)
queries == argv

\* Mutant of NoQueries: the argument list is not looked at.
NoQueriesNever == FALSE

\* queries.length === 0
NoQueries == Len(queries) = 0

\* const queries = ...; if (queries.length === 0) { ...; process.exit(1); }
Main ==
    /\ pc = "main"
    /\ IF NoQueries
       THEN /\ pc' = "exited"
            /\ exitCode' = 1
       ELSE /\ pc' = "for"
            /\ UNCHANGED exitCode
    /\ UNCHANGED <<sizes, runs, allRows, readFailed, argv, file, mainRejected, qi, mainAllProducts,
                   existingContent, fileReads, fileWrites, query, allProducts,
                   page, hasMore, products, requests, responses, delays,
                   results>>

\* Mutant of CurrentQuery: the arguments are walked from the last to the first.
CurrentQueryReversed == queries[Len(queries) + 1 - qi]

\* for (const query of queries): the query of iteration qi
CurrentQuery == queries[qi]

\* Mutant of MoreQueries: the loop leaves before the last query.
MoreQueriesButLast == qi < Len(queries)

\* for (const query of queries): there is a query left
MoreQueries == qi <= Len(queries)

\* for (const query of queries): the next query's fetchProducts is called and
\* runs up to its loop test; after the last query the rows are rendered and
\* file.exists() is awaited.
For ==
    /\ pc = "for"
    /\ IF MoreQueries
       THEN /\ query' = CurrentQuery
            /\ allProducts' = <<>>
            /\ page' = 1
            /\ hasMore' = TRUE
            /\ requests' = <<>>
            /\ responses' = <<>>
            /\ delays' = 0
            /\ pc' = "while"
       ELSE /\ pc' = "exists"
            /\ UNCHANGED <<query, allProducts, page, hasMore, requests,
                           responses, delays>>
    /\ UNCHANGED <<mainVars, products>>

\* const products = await fetchProducts(query); allProducts.push(...products)
\* The locals of the call that returned, and products, go out of scope.
Returned ==
    /\ pc = "returned"
    /\ mainAllProducts' = Push(mainAllProducts, products)
    /\ results' = Append(results, products)
    /\ qi' = qi + 1
    /\ query' = ""
    /\ allProducts' = <<>>
    /\ page' = 1
    /\ hasMore' = TRUE
    /\ products' = <<>>
    /\ requests' = <<>>
    /\ responses' = <<>>
    /\ delays' = 0
    /\ pc' = "for"
    /\ UNCHANGED <<sizes, runs, allRows, readFailed, argv, file, exitCode, mainRejected, existingContent,
                   fileReads, fileWrites>>

\* const csvRows = allProducts.map(productToCsvRow)
csvRows == [i \in 1..Len(mainAllProducts) |->
               productToCsvRow(mainAllProducts[i])]

\* const csvContent = csvRows.join("\n")
csvContent == Join(csvRows)

\* Mutant of finalContent: the text that was read is not written back.
finalContentFresh == csvContent

\* const finalContent = existingContent + csvContent
finalContent == existingContent \o csvContent

\* await file.exists() resolves: the file is read when it is there.
Exists ==
    /\ pc = "exists"
    /\ IF file.exists
       THEN /\ fileReads' = fileReads + 1
            /\ pc' = "text"
       ELSE /\ pc' = "write"
            /\ UNCHANGED fileReads
    /\ UNCHANGED <<sizes, runs, allRows, readFailed, argv, file, exitCode, mainRejected, qi, mainAllProducts,
                   existingContent, fileWrites, query, allProducts, page,
                   hasMore, products, requests, responses, delays, results>>

\* await file.exists() rejects: catch (error) { existingContent = ""; }
ExistsRejects ==
    /\ pc = "exists"
    /\ existingContent' = <<>>
    /\ readFailed' = TRUE
    /\ pc' = "write"
    /\ UNCHANGED <<sizes, runs, allRows, argv, file, exitCode, mainRejected,
                   qi, mainAllProducts, fileReads, fileWrites, query, allProducts, page, hasMore,
                   products, requests, responses, delays, results>>

\* existingContent = await file.text(), and the newline that is added to a
\* nonempty text that does not end with one.
Text ==
    /\ pc = "text"
    /\ existingContent' =
         IF NeedsNewline(file.content)
         THEN file.content \o <<NL>>
         ELSE file.content
    /\ pc' = "write"
    /\ UNCHANGED <<sizes, runs, allRows, readFailed, argv, file, exitCode, mainRejected,
                   qi, mainAllProducts, fileReads, fileWrites, query, allProducts, page, hasMore,
                   products, requests, responses, delays, results>>

\* await file.text() rejects: catch (error) { existingContent = ""; }
TextRejects ==
    /\ pc = "text"
    /\ existingContent' = <<>>
    /\ readFailed' = TRUE
    /\ pc' = "write"
    /\ UNCHANGED <<sizes, runs, allRows, argv, file, exitCode, mainRejected,
                   qi, mainAllProducts, fileReads, fileWrites, query, allProducts, page, hasMore,
                   products, requests, responses, delays, results>>

\* await Bun.write("data.csv", finalContent) resolves; main returns.
Write ==
    /\ pc = "write"
    /\ file' = [exists |-> TRUE, content |-> finalContent]
    /\ allRows' = allRows \o csvRows
    /\ fileWrites' = fileWrites + 1
    /\ pc' = "exited"
    /\ exitCode' = 0
    /\ UNCHANGED <<sizes, runs, readFailed, argv, mainRejected, qi,
                   mainAllProducts, existingContent, fileReads, query, allProducts, page, hasMore, products,
                   requests, responses, delays, results>>

\* await Bun.write("data.csv", finalContent) rejects: main's promise is
\* rejected, main().catch(console.error) logs the error and the process ends.
WriteRejects ==
    /\ pc = "write"
    /\ fileWrites' = fileWrites + 1
    /\ mainRejected' = TRUE
    /\ pc' = "exited"
    /\ exitCode' = 0
    /\ UNCHANGED <<sizes, runs, allRows, readFailed, argv, file, qi, mainAllProducts, existingContent,
                   fileReads, query, allProducts, page, hasMore, products,
                   requests, responses, delays, results>>

----------------------------------------------------------------------------
(* Specification *)

\* The argument lists: the first n query names, and one list that repeats a
\* query.
ArgvSet ==
    {SubSeq(QueryNames, 1, n) : n \in 0..MaxQueries} \cup
    {<<QueryNames[1], QueryNames[1]>>}

\* data.csv before the run: absent, empty, without and with a final newline.
FileSet ==
    {[exists |-> FALSE, content |-> <<>>],
     [exists |-> TRUE, content |-> <<>>],
     [exists |-> TRUE, content |-> <<Old>>],
     [exists |-> TRUE, content |-> <<Old, NL>>]}

\* The state a run starts in, for the argument lists, the files and the page
\* lengths given.
Start(args, files, pageSizes) ==
    /\ argv \in args
    /\ file \in files
    /\ pc = "main"
    /\ exitCode = -1
    /\ mainRejected = FALSE
    /\ qi = 1
    /\ mainAllProducts = <<>>
    /\ existingContent = <<>>
    /\ fileReads = 0
    /\ fileWrites = 0
    /\ query = ""
    /\ allProducts = <<>>
    /\ page = 1
    /\ hasMore = TRUE
    /\ products = <<>>
    /\ requests = <<>>
    /\ responses = <<>>
    /\ delays = 0
    /\ results = <<>>
    /\ readFailed = FALSE
    /\ sizes = pageSizes
    /\ runs = 1
    /\ allRows = <<>>

Init == Start(ArgvSet, FileSet, PageSizes)

Next ==
    \/ Main
    \/ For
    \/ While
    \/ FetchRejects
    \/ FetchNotOk
    \/ FetchOk
    \/ JsonRejects
    \/ JsonResolves
    \/ Delay
    \/ Returned
    \/ Exists
    \/ ExistsRejects
    \/ Text
    \/ TextRejects
    \/ Write
    \/ WriteRejects

Spec == Init /\ [][Next]_vars

\* Every promise the program awaits is settled in the end and its continuation
\* is run: a step that can be taken is taken.
\* The loop of fetchProducts does not read the file: the fair runs start from
\* one data.csv, which is there and does not end with a newline.
FairInit == Init /\ file = [exists |-> TRUE, content |-> <<Old>>]

FairSpec == FairInit /\ [][Next]_vars /\ WF_vars(Next)

\* The server that answers with one item a page: the most requests a call
\* can make.  One query, and a data.csv that is there.
UnitPages == {1}

TrafficInit ==
    Start({<<QueryNames[1]>>}, {[exists |-> TRUE, content |-> <<Old>>]},
          UnitPages)

TrafficSpec == TrafficInit /\ [][Next]_vars

\* Most runs of the program one after the other on the same data.csv.
MaxRuns == 3

\* The program is run again when the run before it has ended: a new process,
\* with its own arguments, on the file the runs before it left.
Restart ==
    /\ pc = "exited"
    /\ runs < MaxRuns
    /\ runs' = runs + 1
    /\ argv' \in {<<>>, <<QueryNames[1]>>}
    /\ pc' = "main"
    /\ exitCode' = -1
    /\ mainRejected' = FALSE
    /\ qi' = 1
    /\ mainAllProducts' = <<>>
    /\ existingContent' = <<>>
    /\ fileReads' = 0
    /\ fileWrites' = 0
    /\ results' = <<>>
    /\ readFailed' = FALSE
    /\ UNCHANGED <<file, sizes, allRows, query, allProducts, page, hasMore,
                   products, requests, responses, delays>>

\* Runs one after the other, from a data.csv that is absent or empty and that
\* can always be read; the server answers with pages of 350 items, so that a
\* run writes no row, 350 rows or 500.
LongPages == {350}

MultiRunInit ==
    Start({<<>>, <<QueryNames[1]>>},
          {[exists |-> FALSE, content |-> <<>>],
           [exists |-> TRUE, content |-> <<>>]},
          LongPages)

MultiRunNext ==
    \/ Main
    \/ For
    \/ While
    \/ FetchRejects
    \/ FetchNotOk
    \/ FetchOk
    \/ JsonRejects
    \/ JsonResolves
    \/ Delay
    \/ Returned
    \/ Exists
    \/ Text
    \/ Write
    \/ WriteRejects
    \/ Restart

MultiRunSpec == MultiRunInit /\ [][MultiRunNext]_vars

----------------------------------------------------------------------------
(* What the logs of the running call say *)

\* A fetchProducts call is running, or has just returned to main.
InCall == pc \in {"while", "fetch", "json", "delay", "returned"}

\* The transport failed: fetch threw, or the status was not a success.
TransportFailed(a) == a.status \in {"networkError", "httpError"}

\* The body could not be used: not JSON, the value null, or items without the
\* pagination object.
Malformed(a) ==
    \/ a.status = "parseError"
    \/ a.status = "body" /\ a.isNull
    \/ a.status = "body" /\ ~a.isNull /\ a.hasResults /\ a.n > 0
         /\ ~a.hasPagination

\* A parsed page with items and a pagination object.
SucceededPage(a) ==
    a.status = "body" /\ ~a.isNull /\ a.hasResults /\ a.n > 0 /\ a.hasPagination

\* A parsed page whose results are missing or empty.
EmptyPage(a) == a.status = "body" /\ ~a.isNull /\ (~a.hasResults \/ a.n = 0)

\* A parsed page with items and a next page.
Continuing(a) == SucceededPage(a) /\ a.nextPage # "null"

\* The items of pages 1..k of the running call, in page order.
RECURSIVE PagesUpTo(_)
PagesUpTo(k) ==
    IF k = 0 THEN <<>>
    ELSE PagesUpTo(k - 1) \o Items(query, k, responses[k].n)

\* The number of items of pages 1..k of the running call.
RECURSIVE SizeSum(_)
SizeSum(k) == IF k = 0 THEN 0 ELSE SizeSum(k - 1) + responses[k].n

\* The concatenation of the sequences of rs.
RECURSIVE Flatten(_)
Flatten(rs) == IF Len(rs) = 0 THEN <<>> ELSE rs[1] \o Flatten(Tail(rs))

----------------------------------------------------------------------------
(* Claims *)

\* C1: whatever the server answers, fetchProducts returns at most
\* TARGET_PRODUCTS_PER_QUERY records.
C1_AtMostCap ==
    /\ Len(products) <= TARGET_PRODUCTS_PER_QUERY
    /\ \A j \in 1..Len(results) : Len(results[j]) <= TARGET_PRODUCTS_PER_QUERY

\* A call returns the cap while its accumulator holds more.
C1_Witness ==
    /\ pc = "returned"
    /\ Len(allProducts) > TARGET_PRODUCTS_PER_QUERY
    /\ Len(products) = TARGET_PRODUCTS_PER_QUERY

\* C2: fetchProducts never raises: a failure on a page (network error, status,
\* parse failure, unusable body) is the last answer of the call, leaves hasMore
\* false with the loop test or the return next, the call returns the slice of
\* its accumulator, and main is never rejected by anything but the file write.
C2_NeverRaises ==
    /\ mainRejected => fileWrites > 0
    /\ InCall =>
         \A i \in 1..Len(responses) :
            (TransportFailed(responses[i]) \/ Malformed(responses[i])) =>
               /\ i = Len(responses)
               /\ Len(requests) = i
               /\ ~hasMore
               /\ pc \in {"while", "returned"}
               /\ pc = "returned" =>
                    products = Slice(allProducts, 0, TARGET_PRODUCTS_PER_QUERY)

\* A call returns records after a parse failure on its second page.
C2_Witness ==
    /\ pc = "returned"
    /\ Len(responses) = 2
    /\ responses[2].status = "parseError"
    /\ Len(products) = 350

\* C3: when the transport fails on page k after k-1 pages with items, no
\* request follows and the call returns the items of pages 1..k-1 in page order.
C3_TransportFailureKeepsPages ==
    InCall =>
      \A k \in 1..Len(responses) :
         (/\ TransportFailed(responses[k])
          /\ \A i \in 1..(k - 1) : SucceededPage(responses[i])) =>
            /\ Len(requests) = k
            /\ pc \in {"while", "returned"}
            /\ allProducts = PagesUpTo(k - 1)
            /\ pc = "returned" =>
                 products = Slice(PagesUpTo(k - 1), 0, TARGET_PRODUCTS_PER_QUERY)

\* The transport fails on page 3 and the call returns pages 1 and 2.
C3_Witness ==
    /\ pc = "returned"
    /\ Len(responses) = 3
    /\ TransportFailed(responses[3])
    /\ products = Items(query, 1, 150) \o Items(query, 2, 150)

\* C4: an unusable body on page k has the effect of a transport failure on
\* page k: no request follows and the accumulator holds the items of pages
\* 1..k-1 only, none of page k.
C4_MalformedKeepsNothingOfPage ==
    InCall =>
      \A k \in 1..Len(responses) :
         (/\ Malformed(responses[k])
          /\ \A i \in 1..(k - 1) : SucceededPage(responses[i])) =>
            /\ Len(requests) = k
            /\ allProducts = PagesUpTo(k - 1)

\* An iteration of the loop comes to its end: at the delay, or in the catch
\* block.
IterationEnds == pc \in {"fetch", "json"} /\ pc' \in {"while", "delay"}

\* C5: every iteration of the loop sets hasMore to false or makes the
\* accumulator longer, and, requests and delays completing, the loop of every
\* call ends.
C5_LoopTerminates ==
    /\ [][IterationEnds =>
            (~hasMore' \/ Len(allProducts') > Len(allProducts))]_vars
    /\ (pc = "while") ~> (pc = "returned")

\* A server that always answers with items and a next page: the cap ends the
\* loop, hasMore still true.
C5_Witness ==
    /\ pc = "returned"
    /\ hasMore
    /\ Len(requests) = 2
    /\ Len(allProducts) >= TARGET_PRODUCTS_PER_QUERY

\* C6: no request is issued while the accumulator holds the cap or more; when
\* every page has items and a next page, the requests of the call are the
\* fewest whose pages sum to the cap or more.
C6_NoRequestBeyondCap ==
    InCall =>
      /\ \A i \in 1..Len(requests) : requests[i].held < TARGET_PRODUCTS_PER_QUERY
      /\ (/\ pc = "returned"
          /\ \A i \in 1..Len(responses) : Continuing(responses[i])) =>
            /\ Len(requests) >= 1
            /\ SizeSum(Len(requests)) >= TARGET_PRODUCTS_PER_QUERY
            /\ SizeSum(Len(requests) - 1) < TARGET_PRODUCTS_PER_QUERY

\* Four pages of 150 items, each with a next page: the fourth is the last.
C6_Witness ==
    /\ pc = "returned"
    /\ Len(requests) = 4
    /\ \A i \in 1..Len(responses) : Continuing(responses[i])
    /\ Len(allProducts) = 600

\* C7: a parsed page with items and nextPage null is the last page requested,
\* and its items are in the accumulator.
C7_NullNextPageIsLast ==
    InCall =>
      \A i \in 1..Len(responses) :
         (SucceededPage(responses[i]) /\ responses[i].nextPage = "null") =>
            /\ Len(requests) = i
            /\ Len(allProducts) = requests[i].held + responses[i].n
            /\ SubSeq(allProducts, requests[i].held + 1, Len(allProducts))
                 = Items(query, i, responses[i].n)

\* nextPage is null on page 1: one request, and the call returns that page.
C7_Witness ==
    /\ pc = "returned"
    /\ Len(requests) = 1
    /\ SucceededPage(responses[1])
    /\ responses[1].nextPage = "null"
    /\ products = Items(query, 1, 150)

\* C8: a parsed page whose results are missing or empty ends the pagination
\* whatever its nextPage: no request follows, and the accumulator is what it
\* was when the page was requested.
C8_EmptyPageStops ==
    InCall =>
      \A i \in 1..Len(responses) :
         EmptyPage(responses[i]) =>
            /\ Len(requests) = i
            /\ ~hasMore
            /\ Len(allProducts) = requests[i].held
            /\ allProducts = PagesUpTo(i - 1)

\* An empty results array with a next page token on page 2 ends the call.
C8_Witness ==
    /\ pc = "returned"
    /\ Len(requests) = 2
    /\ EmptyPage(responses[2])
    /\ responses[2].hasResults
    /\ responses[2].nextPage = "token"
    /\ Len(products) = 150

\* C9: the i-th request of a call asks for page i of the call's query, and
\* page is 1 plus the number of parsed pages with items.
C9_PageNumbers ==
    InCall =>
      /\ \A i \in 1..Len(requests) :
            requests[i].page = i /\ requests[i].query = query
      /\ page = 1 + Cardinality({i \in 1..Len(responses) :
                                    SucceededPage(responses[i])})

\* A fourth request, for page 4, answered by a failure that leaves page at 4.
C9_Witness ==
    /\ pc = "returned"
    /\ Len(requests) = 4
    /\ requests[4].page = 4
    /\ TransportFailed(responses[4])
    /\ page = 4

\* The items of r are in page order, then in the order they have in the page.
InPageOrder(r) ==
    \A m \in 1..(Len(r) - 1) :
       \/ r[m + 1][2] = r[m][2] /\ r[m + 1][3] = r[m][3] + 1
       \/ r[m + 1][2] = r[m][2] + 1 /\ r[m + 1][3] = 1

\* C10: main runs one fetchProducts call per query, in the order of the
\* arguments and one after the other: the requests of the running call are for
\* the first query that has not returned, and the combined sequence is the
\* concatenation of the calls' results in query order, each in page order.
C10_QueriesInOrder ==
    /\ Len(results) = qi - 1
    /\ mainAllProducts = Flatten(results)
    /\ \A j \in 1..Len(results) :
          /\ \A m \in 1..Len(results[j]) : results[j][m][1] = queries[j]
          /\ InPageOrder(results[j])
    /\ InCall =>
          /\ qi <= Len(queries)
          /\ query = queries[qi]
          /\ \A i \in 1..Len(requests) : requests[i].query = queries[qi]
    /\ ~InCall => requests = <<>>

\* The run is over with records of two different queries.
C10_Witness ==
    /\ pc = "exited"
    /\ exitCode = 0
    /\ Len(results) = 2
    /\ queries[1] # queries[2]
    /\ Len(results[1]) > 0
    /\ Len(results[2]) > 0

\* A page of the running call is answered by a failure.
FailureStep ==
    /\ Len(responses') = Len(responses) + 1
    /\ \/ TransportFailed(responses'[Len(responses')])
       \/ Malformed(responses'[Len(responses')])

C12_WriteFailureExitsNonZero ==
    (pc = "exited" /\ mainRejected) => exitCode # 0

\* a is the beginning of b.
IsPrefix(a, b) == Len(a) <= Len(b) /\ SubSeq(b, 1, Len(a)) = a

\* a is the end of b.
IsSuffix(a, b) ==
    Len(a) <= Len(b) /\ SubSeq(b, Len(b) - Len(a) + 1, Len(b)) = a

\* Bun.write resolves: data.csv is written.
WriteStep == pc = "write" /\ pc' = "exited" /\ ~mainRejected'

\* C13 as claimed: whenever data.csv exists before the run, what is written
\* begins with its previous content and ends with the new rows; an absent
\* file is created with the new rows only.
C13_ExistingContentPreserved ==
    [][WriteStep =>
         /\ file'.exists
         /\ IF file.exists
            THEN /\ IsPrefix(file.content, file'.content)
                 /\ IsSuffix(csvContent, file'.content)
            ELSE file'.content = csvContent]_vars

\* C13 as amended: when data.csv exists before the run and is read without
\* error, what is written begins with its previous content and ends with the
\* new rows; when it is absent, or reading it fails, the file is written with
\* the new rows only.
C13_ReadContentPreserved ==
    [][WriteStep =>
         /\ file'.exists
         /\ IF file.exists /\ ~readFailed
            THEN /\ IsPrefix(file.content, file'.content)
                 /\ IsSuffix(csvContent, file'.content)
            ELSE file'.content = csvContent]_vars

\* A file that held a line is written back with that line and new rows.
C13_Witness ==
    /\ pc = "exited"
    /\ ~mainRejected
    /\ ~readFailed
    /\ fileReads = 1
    /\ Len(allRows) > 0
    /\ IsPrefix(<<Old, NL>>, file.content)
    /\ Len(file.content) = 2 * Len(allRows) + 1

\* The text the run has of data.csv: what file.text() gave, nothing when the
\* file is absent or could not be read.
ReadText == IF file.exists /\ ~readFailed THEN file.content ELSE <<>>

\* C14: the text written is the text read, then one newline when that text is
\* not empty and does not end with a newline (none otherwise, so no blank line
\* at the head of an empty or absent file), then the new rows, one newline
\* between two rows and none after the last.
C14_NewlineOnlyWhenNeeded ==
    [][WriteStep =>
         LET old == ReadText
             n == Len(mainAllProducts)
             boundary == IF Len(old) > 0 /\ old[Len(old)] # NL
                         THEN <<NL>> ELSE <<>>
             new == SubSeq(file'.content, Len(old) + Len(boundary) + 1,
                           Len(file'.content))
         IN  /\ IsPrefix(old \o boundary, file'.content)
             /\ Len(new) = IF n = 0 THEN 0 ELSE 2 * n - 1
             /\ \A k \in 1..Len(new) :
                   IF k % 2 = 1
                   THEN new[k] = productToCsvRow(mainAllProducts[(k + 1) \div 2])
                   ELSE new[k] = NL]_vars

\* The text read has no final newline: one is put before the first new row.
C14_Witness ==
    /\ pc = "write"
    /\ file.content = <<Old>>
    /\ existingContent = <<Old, NL>>
    /\ Len(mainAllProducts) = 150
    /\ finalContent[3] = productToCsvRow(mainAllProducts[1])
    /\ Len(finalContent) = 301

\* C15: a run without query arguments takes one step, to the exit with status
\* 1: no request is issued, data.csv is neither read nor written and is left
\* as it was.
C15_NoArgumentsNoEffect ==
    [][Len(argv) = 0 =>
         /\ pc = "main"
         /\ pc' = "exited"
         /\ exitCode' = 1
         /\ file' = file
         /\ requests' = <<>>
         /\ fileReads' = 0
         /\ fileWrites' = 0]_vars

\* The run without arguments is over, the file that was there is there.
C15_Witness ==
    /\ pc = "exited"
    /\ Len(argv) = 0
    /\ exitCode = 1
    /\ file = [exists |-> TRUE, content |-> <<Old>>]
    /\ fileReads = 0
    /\ fileWrites = 0

C17_TruncationOnlyAtReturn ==
    InCall =>
      /\ allProducts = PagesUpTo(Len(responses))
      /\ Len(allProducts) > TARGET_PRODUCTS_PER_QUERY =>
           /\ Len(responses) >= 1
           /\ Len(allProducts) - responses[Len(responses)].n
                < TARGET_PRODUCTS_PER_QUERY
      /\ pc = "returned" =>
           /\ Len(products) = Min(TARGET_PRODUCTS_PER_QUERY, Len(allProducts))
           /\ \A m \in 1..Len(products) : products[m] = allProducts[m]

\* Pages of 150, 150 and 350 items: 650 are held, and the 500th item returned
\* is the 200th of page 3.
C17_Witness ==
    /\ pc = "returned"
    /\ Len(responses) = 3
    /\ Len(allProducts) = 650
    /\ Len(products) = 500
    /\ products[500] = Item(query, 3, 200)

\* An answer the try block handled to its end.
Processed(a) == SucceededPage(a) \/ EmptyPage(a)

\* C18: one delay elapses after every page the try block handles to its end
\* (items or none, next page or not, cap reached or not) and none after a
\* failure, so one delay lies between two consecutive requests and a failed
\* iteration goes to the loop test without delay.
C18_Throttling ==
    InCall =>
      LET done == Cardinality({i \in 1..Len(responses) :
                                  Processed(responses[i])})
      IN  /\ delays = IF pc = "delay" THEN done - 1 ELSE done
          /\ pc = "fetch" => delays = Len(requests) - 1
          /\ pc = "delay" => Processed(responses[Len(responses)])
          /\ \A i \in 1..Len(responses) :
                ~Processed(responses[i]) => pc \in {"while", "returned"}

\* The last page had items and no next page: two requests, two delays.
C18_Witness ==
    /\ pc = "returned"
    /\ Len(requests) = 2
    /\ SucceededPage(responses[2])
    /\ responses[2].nextPage = "null"
    /\ delays = 2

\* C19: a call issues at least one request and at most 500: before its i-th
\* request the accumulator holds at least i-1 records and fewer than 500; a
\* request that is not answered by a page with items and a pagination object
\* (a failure, an empty page) is the last of the call.
C19_RequestsBounded ==
    InCall =>
      /\ Len(requests) <= TARGET_PRODUCTS_PER_QUERY
      /\ pc # "while" => Len(requests) >= 1
      /\ \A i \in 1..Len(requests) :
            /\ requests[i].held >= i - 1
            /\ requests[i].held < TARGET_PRODUCTS_PER_QUERY
      /\ \A i \in 1..Len(responses) :
            ~SucceededPage(responses[i]) => i = Len(requests)

\* One item a page: the call returns after its 500th request.
C19_Witness ==
    /\ pc = "returned"
    /\ Len(requests) = 500
    /\ requests[500].held = 499
    /\ Len(products) = 500

\* The lines of data.csv are the rows written so far, in order: a row at every
\* odd place, a newline at every even place, and at most one newline after the
\* last row.
LinesAreRows ==
    LET c == file.content
        n == Len(allRows)
    IN  /\ Len(c) \in (IF n = 0 THEN {0} ELSE {2 * n - 1, 2 * n})
        /\ \A k \in 1..Len(c) :
              IF k % 2 = 1 THEN c[k] = allRows[(k + 1) \div 2] ELSE c[k] = NL

\* C20: from an absent or empty data.csv that can always be read, after any
\* number of runs the lines of the file are the rows of the runs in run order,
\* one row a line, no line empty, no row lost, repeated or joined to another;
\* a run without rows adds at most one newline at the end of the file.
C20_RunsAppendRows ==
    /\ []LinesAreRows
    /\ [][(WriteStep /\ Len(mainAllProducts) = 0) =>
            \/ file'.content = file.content
            \/ file'.content = file.content \o <<NL>>]_vars

\* The third run is about to write 500 rows after the 350 rows of one run
\* and the newline a run without rows added.
C20_Witness ==
    /\ pc = "write"
    /\ runs = 3
    /\ Len(allRows) = 350
    /\ Len(file.content) = 700
    /\ EndsWithNL(file.content)
    /\ Len(mainAllProducts) = 500
    /\ Len(finalContent) = 1699

====
